---- MODULE Spec2Model ----
(***************************************************************************)
(* Voxel chunk meshing (src/src/meshing.rs): the Chunk block grid with its *)
(* change flag, the two ECS systems that mesh dirty chunks and clear the   *)
(* flag at the end of a tick, the X+ face emitter and the naive mesher.    *)
(*                                                                         *)
(* f32 values are the small integers the code converts from usize/u8, so   *)
(* they are modelled by Int.  A Block is its only field, the MaterialID,   *)
(* and a MaterialID is its u32 id.  A reference to a block (&Block,        *)
(* &mut Block) is the index of its cell in Chunk::blocks.                  *)
(*                                                                         *)
(* A ChunkMeshData spells out its four vectors, except for the `elided`    *)
(* quads at their front: these are the quads that as many calls            *)
(* insert_face(<<0, 0, 0>>, <<1, 1>>, _) put into an empty buffer, and the   *)
(* vectors hold what follows them.  No quad is elided in a buffer that     *)
(* generate_mesh fills.                                                    *)
(***************************************************************************)
EXTENDS Integers, Sequences, FiniteSets, TLC

(***************************************************************************)
(* Program constants.                                                      *)
(***************************************************************************)
SIZE_X == 16
SIZE_Y == 16
SIZE_Z == 16

\* Number of values of u16, the type of ChunkMeshData::indices.
U16_RANGE == 65536

\* The discriminants of enum AADirection.
XPositive == 0
XNegative == 1
YPositive == 2
YNegative == 3
ZPositive == 4
ZNegative == 5

AADirection == {XPositive, XNegative, YPositive, YNegative, ZPositive, ZNegative}

is_positive(d) ==
  CASE d = XPositive -> TRUE
    [] d = XNegative -> FALSE
    [] d = YPositive -> TRUE
    [] d = YNegative -> FALSE
    [] d = ZPositive -> TRUE
    [] d = ZNegative -> FALSE

is_negative(d) == ~is_positive(d)

AIR == [id |-> 0, transparent |-> TRUE, custom_model |-> FALSE]

\* Block::default()
DefaultBlock == AIR.id

(***************************************************************************)
(* Bounds of the model.                                                    *)
(***************************************************************************)
\* Material ids written by the block writers are 0..MaxMaterial.
MaxMaterial == 1
\* Block writes per run.
MaxWrites == 1
\* Direct calls of the face emitter per run.
MaxFaces == 1

MaterialIDs == 0..MaxMaterial

\* Option<Entity>::None, and the entity the host links as a neighbor.
None == "None"
NeighborEntities == {"n1"}

\* The chunk entities of the world; each carries a Chunk and a Handle<Mesh>.
ChunkEntities == {"c1"}

\* Coordinates the callers pass: the corners of the grid, the unit steps
\* along each axis, and coordinates with one component just out of range.
TestCoords ==
  { <<0, 0, 0>>, <<1, 0, 0>>, <<0, 1, 0>>, <<0, 0, 1>>,
    <<SIZE_X - 1, SIZE_Y - 1, SIZE_Z - 1>>,
    <<SIZE_X, 0, 0>>, <<0, SIZE_Y, 0>>, <<0, 0, SIZE_Z>>,
    <<SIZE_X, SIZE_Y - 1, SIZE_Z - 1>> }

InRange(p) == p[1] < SIZE_X /\ p[2] < SIZE_Y /\ p[3] < SIZE_Z

InRangeCoords == (0..(SIZE_X - 1)) \X (0..(SIZE_Y - 1)) \X (0..(SIZE_Z - 1))

(***************************************************************************)
(* Chunk                                                                   *)
(***************************************************************************)
NumBlocks == SIZE_X * SIZE_Y * SIZE_Z

\* array![v; n]: the array of n copies of v.  The array is a sequence, so
\* the cell of (zero-based) index i is its element i + 1.
RECURSIVE array(_, _)
array(v, n) ==
  IF n = 0 THEN <<>>
  ELSE IF n % 2 = 1 THEN <<v>> \o array(v, n - 1)
  ELSE LET half == array(v, n \div 2) IN half \o half

\* Chunk::empty()
empty ==
  [ blocks    |-> array(DefaultBlock, NumBlocks),
    updated   |-> TRUE,
    neighbors |-> [d \in AADirection |-> None] ]

set_neighbor(chunk, entity, direction) ==
  [chunk EXCEPT !.neighbors[direction] = entity]

get_neighbor(chunk, direction) == chunk.neighbors[direction]

\* A linear index that forgets the row length SIZE_Y.
block_index_flat(x, y, z) == SIZE_X * (z + y) + x

\* The index expression of block_at and block_at_mut.  The coordinates of
\* this model are far below the usize overflow of the multiplication.
block_index(x, y, z) == SIZE_X * (SIZE_Y * z + y) + x

\* slice::get / get_mut followed by expect("Block index out of range"):
\* the reference to the cell, or a panic when the index is not below the
\* length of the array, which its type fixes to NumBlocks.
block_at(chunk, x, y, z) ==
  LET i == block_index(x, y, z) IN
  IF i < NumBlocks
    THEN [panic |-> FALSE, cell |-> i]
    ELSE [panic |-> TRUE, cell |-> -1]

block_at_mut(chunk, x, y, z) ==
  LET i == block_index(x, y, z) IN
  IF i < NumBlocks
    THEN [panic |-> FALSE, cell |-> i]
    ELSE [panic |-> TRUE, cell |-> -1]

has_changed(chunk) == chunk.updated

set_change(chunk) == [chunk EXCEPT !.updated = TRUE]

\* A clear that leaves the flag as it is.
clear_change_noop(chunk) == chunk

clear_change(chunk) == [chunk EXCEPT !.updated = FALSE]

(***************************************************************************)
(* ChunkMeshData, the face emitter and the naive mesher                    *)
(***************************************************************************)
\* ChunkMeshData::default()
ChunkMeshData_default ==
  [elided |-> 0, positions |-> <<>>, normals |-> <<>>, uvs |-> <<>>, indices |-> <<>>]

\* positions.len(), and the lengths of the other vectors
positions_len(data) == 4 * data.elided + Len(data.positions)
normals_len(data) == 4 * data.elided + Len(data.normals)
uvs_len(data) == 4 * data.elided + Len(data.uvs)
indices_len(data) == 6 * data.elided + Len(data.indices)

\* impl Into<Mesh> for ChunkMeshData: the four vectors become the index
\* buffer and the three vertex attributes of a triangle-list Mesh.
into(data) ==
  [ primitive_topology |-> "TriangleList",
    elided             |-> data.elided,
    indices            |-> data.indices,
    ATTRIBUTE_POSITION |-> data.positions,
    ATTRIBUTE_NORMAL   |-> data.normals,
    ATTRIBUTE_UV_0     |-> data.uvs ]

\* `len as u16`: the cast keeps the low 16 bits.
as_u16(n) == n % U16_RANGE

\* An emitter whose index base is one quad ahead of the vertex count.
insert_face_base_ahead(block_pos, dimensions, mesh_data) ==
  LET base_vertex_idx == as_u16(positions_len(mesh_data) + 4)
      u == dimensions[1]
      v == dimensions[2]
  IN  [ elided    |-> mesh_data.elided,
        positions |-> mesh_data.positions \o
                        << <<block_pos[1], block_pos[2] + u, block_pos[3]>>,
                           <<block_pos[1], block_pos[2] + u, block_pos[3] + v>>,
                           <<block_pos[1], block_pos[2], block_pos[3] + v>>,
                           <<block_pos[1], block_pos[2], block_pos[3]>> >>,
        normals   |-> mesh_data.normals \o
                        << <<1, 0, 0>>, <<1, 0, 0>>, <<1, 0, 0>>, <<1, 0, 0>> >>,
        uvs       |-> mesh_data.uvs \o
                        << <<1, 1>>, <<1, 1>>, <<1, 1>>, <<1, 1>> >>,
        indices   |-> mesh_data.indices \o
                        << base_vertex_idx, base_vertex_idx + 1,
                           base_vertex_idx + 2, base_vertex_idx + 2,
                           base_vertex_idx + 3, base_vertex_idx >> ]

\* FaceInserterImpl<0>::insert_face.  The vertex count is a multiple of 4 in
\* every buffer the emitter builds, so base_vertex_idx + 3 stays in u16.
insert_face(block_pos, dimensions, mesh_data) ==
  LET base_vertex_idx == as_u16(positions_len(mesh_data))
      u == dimensions[1]
      v == dimensions[2]
  IN  [ elided    |-> mesh_data.elided,
        positions |-> mesh_data.positions \o
                        << <<block_pos[1], block_pos[2] + u, block_pos[3]>>,
                           <<block_pos[1], block_pos[2] + u, block_pos[3] + v>>,
                           <<block_pos[1], block_pos[2], block_pos[3] + v>>,
                           <<block_pos[1], block_pos[2], block_pos[3]>> >>,
        normals   |-> mesh_data.normals \o
                        << <<1, 0, 0>>, <<1, 0, 0>>, <<1, 0, 0>>, <<1, 0, 0>> >>,
        uvs       |-> mesh_data.uvs \o
                        << <<1, 1>>, <<1, 1>>, <<1, 1>>, <<1, 1>> >>,
        indices   |-> mesh_data.indices \o
                        << base_vertex_idx, base_vertex_idx + 1,
                           base_vertex_idx + 2, base_vertex_idx + 2,
                           base_vertex_idx + 3, base_vertex_idx >> ]

\* const DIMENSIONS of generate_mesh
DIMENSIONS == <<1, 1>>

\* The position generate_mesh hands to the emitter for voxel (x, y, z),
\* without the step along x.
face_origin_same(x, y, z) == <<x, y, z>>

\* The position generate_mesh hands to the emitter for voxel (x, y, z).
face_origin(x, y, z) == <<x + 1, y, z>>

\* The body of the innermost loop of generate_mesh: the block is read (a
\* panic of block_at ends the generation) and one X+ face is emitted.
loop_body(chunk, x, y, z, st) ==
  LET block == block_at(chunk, x, y, z) IN
  IF block.panic
    THEN [st EXCEPT !.panic = TRUE]
    ELSE [st EXCEPT !.data = insert_face(face_origin(x, y, z), DIMENSIONS, st.data)]

RECURSIVE loop_x(_, _, _, _, _)
loop_x(chunk, x, y, z, st) ==
  IF st.panic \/ x >= SIZE_X
    THEN st
    ELSE loop_x(chunk, x + 1, y, z, loop_body(chunk, x, y, z, st))

RECURSIVE loop_y(_, _, _, _)
loop_y(chunk, y, z, st) ==
  IF st.panic \/ y >= SIZE_Y
    THEN st
    ELSE loop_y(chunk, y + 1, z, loop_x(chunk, 0, y, z, st))

RECURSIVE loop_z(_, _, _)
loop_z(chunk, z, st) ==
  IF st.panic \/ z >= SIZE_Z
    THEN st
    ELSE loop_z(chunk, z + 1, loop_y(chunk, 0, z, st))

\* NaiveChunkMesher::generate_mesh: the filled buffer (data), converted
\* into the Mesh it returns (mesh).
generate_mesh(chunk) ==
  LET st == loop_z(chunk, 0, [panic |-> FALSE, data |-> ChunkMeshData_default])
  IN  [panic |-> st.panic, data |-> st.data, mesh |-> into(st.data)]

(***************************************************************************)
(* State                                                                   *)
(***************************************************************************)
VARIABLES
  chunks,      \* the Chunk component of every chunk entity
  meshes,      \* Assets<Mesh>: the asset behind every chunk entity's Handle<Mesh>
  mesh,        \* the ChunkMeshData buffer the face emitter appends to
  call,        \* the operation that ran last, with its arguments
  phase,       \* position in the tick: "update" before, "meshed" after meshing
  meshedFrom,  \* per chunk: the blocks its mesh was generated from in this tick
  pending,     \* per chunk: set_change ran since the last meshing pass meshed it
  nwrites,     \* block writes so far
  nfaces       \* direct emitter calls so far

vars == <<chunks, meshes, mesh, call, phase, meshedFrom, pending, nwrites, nfaces>>

\* No mesh was generated for the chunk in this tick / one was, from blocks b.
NotMeshed == [done |-> FALSE, blocks |-> <<>>]
MeshedFrom(b) == [done |-> TRUE, blocks |-> b]

Call(op, entity, pos, material, dims, panic, was) ==
  [ op |-> op, entity |-> entity, pos |-> pos, material |-> material,
    dims |-> dims, panic |-> panic, was |-> was ]

\* The state after the host has spawned every chunk entity with
\* Chunk::empty() and an empty mesh asset.
InitWorld ==
  /\ chunks = [e \in ChunkEntities |-> empty]
  /\ meshes = [e \in ChunkEntities |-> into(ChunkMeshData_default)]
  /\ mesh = ChunkMeshData_default
  /\ call = Call("empty", None, <<0, 0, 0>>, 0, <<0, 0>>, FALSE, FALSE)
  /\ phase = "update"
  /\ meshedFrom = [e \in ChunkEntities |-> NotMeshed]
  /\ pending = [e \in ChunkEntities |-> FALSE]
  /\ nwrites = 0
  /\ nfaces = 0

(***************************************************************************)
(* Callers of the Chunk API                                                *)
(***************************************************************************)
\* chunk.block_at_mut(x, y, z).material = m: the write goes to the cell the
\* returned reference points at; a panic leaves the chunk as it was.
WriteBlock(e, pos, m) ==
  /\ nwrites < MaxWrites
  /\ LET r == block_at_mut(chunks[e], pos[1], pos[2], pos[3]) IN
       /\ chunks' = IF r.panic THEN chunks
                    ELSE [chunks EXCEPT ![e].blocks[r.cell + 1] = m]
       /\ call' = Call("block_at_mut", e, pos, m, <<0, 0>>, r.panic,
                       has_changed(chunks[e]))
  /\ nwrites' = nwrites + 1
  /\ UNCHANGED <<meshes, mesh, phase, meshedFrom, pending, nfaces>>

\* chunk.block_at(x, y, z).material: the material read, or the panic.
ReadBlock(e, pos) ==
  /\ \E r \in {block_at(chunks[e], pos[1], pos[2], pos[3])} :
       call' = Call("block_at", e, pos,
                    IF r.panic THEN 0 ELSE chunks[e].blocks[r.cell + 1],
                    <<0, 0>>, r.panic, has_changed(chunks[e]))
  /\ UNCHANGED <<chunks, meshes, mesh, phase, meshedFrom, pending, nwrites, nfaces>>

SetChange(e) ==
  /\ chunks' = [chunks EXCEPT ![e] = set_change(@)]
  /\ call' = Call("set_change", e, <<0, 0, 0>>, 0, <<0, 0>>, FALSE,
                  has_changed(chunks[e]))
  /\ pending' = [pending EXCEPT ![e] = pending[e] \/ phase = "meshed"]
  /\ UNCHANGED <<meshes, mesh, phase, meshedFrom, nwrites, nfaces>>

ClearChange(e) ==
  /\ chunks' = [chunks EXCEPT ![e] = clear_change(@)]
  /\ call' = Call("clear_change", e, <<0, 0, 0>>, 0, <<0, 0>>, FALSE,
                  has_changed(chunks[e]))
  /\ UNCHANGED <<meshes, mesh, phase, meshedFrom, pending, nwrites, nfaces>>

SetNeighbor(e, n, d) ==
  /\ get_neighbor(chunks[e], d) # n
  /\ chunks' = [chunks EXCEPT ![e] = set_neighbor(@, n, d)]
  /\ call' = Call("set_neighbor", e, <<0, 0, 0>>, 0, <<0, 0>>, FALSE,
                  has_changed(chunks[e]))
  /\ UNCHANGED <<meshes, mesh, phase, meshedFrom, pending, nwrites, nfaces>>

\* Directions the host links a neighbor in.
LinkDirections == {XPositive, ZNegative}

NextChunk ==
  \/ \E e \in ChunkEntities, pos \in TestCoords, m \in MaterialIDs :
       WriteBlock(e, pos, m)
  \/ \E e \in ChunkEntities, pos \in TestCoords : ReadBlock(e, pos)
  \/ \E e \in ChunkEntities : SetChange(e)
  \/ \E e \in ChunkEntities : ClearChange(e)
  \/ \E e \in ChunkEntities, n \in NeighborEntities, d \in LinkDirections :
       SetNeighbor(e, n, d)

SpecChunk == InitWorld /\ [][NextChunk]_vars

(***************************************************************************)
(* The two systems of a tick.  The schedule runs chunk_meshing_system and  *)
(* then chunk_end_of_tick_system, once each per tick; a system borrowing   *)
(* Query<&mut Chunk> never overlaps one borrowing Query<&Chunk>, so the     *)
(* writers run before, between and after the two, never inside one.        *)
(***************************************************************************)
\* Voxel the writer systems of a tick change.
TickCoords == { <<0, 0, 0>> }

\* The body of the loop of chunk_end_of_tick_system.
end_of_tick(chunk) == [chunk EXCEPT !.updated = FALSE]

\* chunk_meshing_system::<NaiveChunkMesher>: every chunk that has changed gets
\* a new mesh, written over the asset of its handle.
ChunkMeshingSystem ==
  /\ phase = "update"
  /\ meshes' = [e \in ChunkEntities |->
                  IF has_changed(chunks[e])
                    THEN generate_mesh(chunks[e]).mesh
                    ELSE meshes[e]]
  /\ meshedFrom' = [e \in ChunkEntities |->
                      IF has_changed(chunks[e])
                        THEN MeshedFrom(chunks[e].blocks)
                        ELSE meshedFrom[e]]
  /\ pending' = [e \in ChunkEntities |-> pending[e] /\ ~has_changed(chunks[e])]
  /\ phase' = "meshed"
  /\ call' = Call("chunk_meshing_system", None, <<0, 0, 0>>, 0, <<0, 0>>,
                  FALSE, FALSE)
  /\ UNCHANGED <<chunks, mesh, nwrites, nfaces>>

\* chunk_end_of_tick_system: every chunk's flag is cleared.
ChunkEndOfTickSystem ==
  /\ phase = "meshed"
  /\ chunks' = [e \in ChunkEntities |-> end_of_tick(chunks[e])]
  /\ meshedFrom' = [e \in ChunkEntities |-> NotMeshed]
  /\ phase' = "update"
  /\ call' = Call("chunk_end_of_tick_system", None, <<0, 0, 0>>, 0, <<0, 0>>,
                  FALSE, FALSE)
  /\ UNCHANGED <<meshes, mesh, pending, nwrites, nfaces>>

Next ==
  \/ \E e \in ChunkEntities, pos \in TickCoords, m \in MaterialIDs :
       WriteBlock(e, pos, m)
  \/ \E e \in ChunkEntities : SetChange(e)
  \/ \E e \in ChunkEntities : ClearChange(e)
  \/ ChunkMeshingSystem
  \/ ChunkEndOfTickSystem

Spec == InitWorld /\ [][Next]_vars

(***************************************************************************)
(* Callers of the face emitter and of the mesher                           *)
(***************************************************************************)
FacePositions ==
  { <<0, 0, 0>>, <<1, 0, 0>>, <<3, 2, 1>>, <<SIZE_X, SIZE_Y - 1, SIZE_Z - 1>> }

\* Vector2<u8>
FaceDims == { <<1, 1>>, <<2, 1>>, <<3, 2>>, <<255, 255>> }

\* A direct call of the emitter on the buffer `mesh`.
InsertFace(pos, dims) ==
  /\ nfaces < MaxFaces
  /\ \A e \in ChunkEntities : ~meshedFrom[e].done
  /\ mesh' = insert_face(pos, dims, mesh)
  /\ call' = Call("insert_face", None, pos, 0, dims, FALSE, FALSE)
  /\ nfaces' = nfaces + 1
  /\ UNCHANGED <<chunks, meshes, phase, meshedFrom, pending, nwrites>>

\* Mesher::generate_mesh(chunk) on a chunk entity that was not meshed yet; the
\* Mesh it returns replaces the asset of the entity.
GenerateMesh(e) ==
  /\ nfaces = 0
  /\ ~meshedFrom[e].done
  /\ \E r \in {generate_mesh(chunks[e])} :
       /\ meshes' = IF r.panic THEN meshes ELSE [meshes EXCEPT ![e] = r.mesh]
       /\ call' = Call("generate_mesh", e, <<0, 0, 0>>, 0, <<0, 0>>, r.panic,
                       has_changed(chunks[e]))
  /\ meshedFrom' = [meshedFrom EXCEPT ![e] = MeshedFrom(chunks[e].blocks)]
  /\ UNCHANGED <<chunks, mesh, phase, pending, nwrites, nfaces>>

\* Voxels the writers of the mesher's runs fill.
MeshCoords == { <<1, 1, 1>>, <<2, 1, 1>> }

NextMesh ==
  \/ \E e \in ChunkEntities, pos \in MeshCoords, m \in MaterialIDs :
       WriteBlock(e, pos, m)
  \/ \E e \in ChunkEntities : GenerateMesh(e)
  \/ \E pos \in FacePositions, dims \in FaceDims : InsertFace(pos, dims)

SpecMesh == InitWorld /\ [][NextMesh]_vars

\* The buffer after q calls insert_face(<<0, 0, 0>>, <<1, 1>>, _) on an
\* empty buffer, its q quads elided.
quads_buffer(q) ==
  [elided |-> q, positions |-> <<>>, normals |-> <<>>, uvs |-> <<>>, indices |-> <<>>]

\* Quads already in the buffer when the emitter is called: a few, the
\* NumBlocks quads of a naive mesh, and the counts around the end of the
\* u16 index space.
InitQuads ==
  {0, 1, 2, 3, NumBlocks,
   (U16_RANGE \div 4) - 1, U16_RANGE \div 4, (U16_RANGE \div 4) + 1}

InitFace ==
  /\ chunks = [e \in ChunkEntities |-> empty]
  /\ meshes = [e \in ChunkEntities |-> into(ChunkMeshData_default)]
  /\ mesh \in {quads_buffer(q) : q \in InitQuads}
  /\ call = Call("empty", None, <<0, 0, 0>>, 0, <<0, 0>>, FALSE, FALSE)
  /\ phase = "update"
  /\ meshedFrom = [e \in ChunkEntities |-> NotMeshed]
  /\ pending = [e \in ChunkEntities |-> FALSE]
  /\ nwrites = 0
  /\ nfaces = 0

NextFace == \E pos \in FacePositions, dims \in FaceDims : InsertFace(pos, dims)

SpecFace == InitFace /\ [][NextFace]_vars

(***************************************************************************)
(* Properties of the Chunk API (SpecChunk)                                 *)
(***************************************************************************)
Read(chunk, p) == chunk.blocks[block_at(chunk, p[1], p[2], p[3]).cell + 1]

\* The linear index maps the in-range coordinates one-to-one into the array.
IndexInjective ==
  /\ \A p \in InRangeCoords : block_index(p[1], p[2], p[3]) \in 0..(NumBlocks - 1)
  /\ Cardinality({block_index(p[1], p[2], p[3]) : p \in InRangeCoords}) = NumBlocks

\* C4: block_at and block_at_mut fail (panic) for every coordinate with a
\* component out of range; they never hand out a block for it.
C4_OutOfRangeFails ==
  (call.op \in {"block_at", "block_at_mut"} /\ ~InRange(call.pos)) => call.panic

\* C10: a write through block_at_mut at an in-range coordinate is read back by
\* block_at at that coordinate and changes that one cell of the array; the
\* linear index maps the in-range coordinates one-to-one into the array, so
\* block_at at every other in-range coordinate returns what it returned
\* before; the change flag and the neighbor links are left as they were.
C10_WriteFrame ==
  [][ (call'.op = "block_at_mut" /\ InRange(call'.pos)) =>
        \E p \in {call'.pos}, old \in {chunks[call'.entity]},
           new \in {chunks'[call'.entity]} :
          /\ IndexInjective
          /\ ~call'.panic
          /\ ~block_at(new, p[1], p[2], p[3]).panic
          /\ Read(new, p) = call'.material
          /\ new.blocks =
               [old.blocks EXCEPT ![block_at(old, p[1], p[2], p[3]).cell + 1] =
                                    call'.material]
          /\ \A q \in TestCoords :
               (InRange(q) /\ q # p) => Read(new, q) = Read(old, q)
          /\ new.updated = old.updated
          /\ new.neighbors = old.neighbors ]_vars

\* A non-AIR block written at an in-range coordinate of a chunk that has a
\* neighbor linked.
C10_Witness ==
  /\ call.op = "block_at_mut"
  /\ InRange(call.pos)
  /\ call.material # AIR.id
  /\ Read(chunks[call.entity], call.pos) = call.material
  /\ \E d \in AADirection : get_neighbor(chunks[call.entity], d) # None

(***************************************************************************)
(* Properties of the change flag and of the two systems (Spec)             *)
(***************************************************************************)
\* C1: a set_change that runs after the meshing pass of a tick is not lost to
\* the tick-end clear: after chunk_end_of_tick_system the chunk is still dirty,
\* until a later meshing pass has meshed it.
C1_WriteNotLost ==
  call.op = "chunk_end_of_tick_system" =>
    \A e \in ChunkEntities : pending[e] => has_changed(chunks[e])

\* C2: chunk_end_of_tick_system takes a chunk's flag from true to false only
\* when, in the same tick, a mesh was generated from the chunk's current blocks
\* and installed at its handle; otherwise the chunk is still dirty after it.
C2_ClearOnlyAfterMesh ==
  [][ call'.op = "chunk_end_of_tick_system" =>
        \A e \in ChunkEntities :
          (has_changed(chunks[e]) /\ ~has_changed(chunks'[e])) =>
            (meshedFrom[e].done /\ meshedFrom[e].blocks = chunks[e].blocks) ]_vars

\* C3: Chunk::empty() is all AIR, has no neighbor linked and has changed;
\* clear_change and the end-of-tick system leave the flag false, set_change
\* leaves it true; nothing but clear_change and the end-of-tick system takes the
\* flag from true to false, nothing but set_change takes it from false to true
\* (a block write and the meshing system leave it), so it stays true from a
\* set_change to the next clear.
C3_DirtyLifecycle ==
  [][ /\ call.op = "empty" =>
           \A e \in ChunkEntities :
             /\ \A i \in 1..NumBlocks : chunks[e].blocks[i] = AIR.id
             /\ Len(chunks[e].blocks) = NumBlocks
             /\ \A d \in AADirection : get_neighbor(chunks[e], d) = None
             /\ has_changed(chunks[e])
      /\ \A e \in ChunkEntities :
           /\ (call'.op = "clear_change" /\ call'.entity = e) =>
                ~has_changed(chunks'[e])
           /\ call'.op = "chunk_end_of_tick_system" => ~has_changed(chunks'[e])
           /\ (call'.op = "set_change" /\ call'.entity = e) =>
                has_changed(chunks'[e])
           /\ (has_changed(chunks[e]) /\ ~has_changed(chunks'[e])) =>
                \/ call'.op = "clear_change" /\ call'.entity = e
                \/ call'.op = "chunk_end_of_tick_system"
           /\ (~has_changed(chunks[e]) /\ has_changed(chunks'[e])) =>
                (call'.op = "set_change" /\ call'.entity = e)
           /\ call'.op = "chunk_meshing_system" => chunks'[e] = chunks[e] ]_vars

\* A chunk that was meshed and cleared, then had a block changed, and is dirty
\* again after set_change.
C3_Witness ==
  /\ call.op = "set_change"
  /\ ~call.was
  /\ has_changed(chunks[call.entity])
  /\ chunks[call.entity].blocks # empty.blocks
  /\ meshes[call.entity] # into(ChunkMeshData_default)

(***************************************************************************)
(* Properties of the mesher and of the face emitter (SpecMesh, SpecFace)   *)
(***************************************************************************)
\* Only AIR is known to be transparent: the other materials of the runs are
\* opaque.
Transparent(m) == m = AIR.id

Step(d) ==
  CASE d = XPositive -> <<1, 0, 0>>
    [] d = XNegative -> <<-1, 0, 0>>
    [] d = YPositive -> <<0, 1, 0>>
    [] d = YNegative -> <<0, -1, 0>>
    [] d = ZPositive -> <<0, 0, 1>>
    [] d = ZNegative -> <<0, 0, -1>>

\* The voxel next to p in direction d is air or transparent; outside the chunk
\* it is air, no neighbor chunk being linked in the runs of the mesher.
AdjacentOpen(chunk, p, d) ==
  LET q == <<p[1] + Step(d)[1], p[2] + Step(d)[2], p[3] + Step(d)[3]>> IN
  IF q \in InRangeCoords THEN Transparent(Read(chunk, q)) ELSE TRUE

VisibleFaces(chunk) ==
  { f \in InRangeCoords \X AADirection :
      Read(chunk, f[1]) # AIR.id /\ AdjacentOpen(chunk, f[1], f[2]) }

\* C5: generate_mesh emits one unit quad per voxel v and direction d with v
\* non-air and the voxel next to v in direction d air or transparent, and no
\* other quad: an all-AIR chunk yields an empty mesh, one isolated opaque voxel
\* yields 6 quads.
C5_NaiveFaces ==
  (call.op = "generate_mesh" /\ ~call.panic) =>
    Len(meshes[call.entity].ATTRIBUTE_POSITION)
      = 4 * Cardinality(VisibleFaces(chunks[call.entity]))

\* C6: the buffers of a generated mesh: positions, normals and uvs have the
\* same length, the number of indices is a multiple of 3, every index is below
\* the number of positions, and there are at most 65536 vertices.
C6_BufferInvariants ==
  (call.op = "generate_mesh" /\ ~call.panic) =>
    \E m \in {meshes[call.entity]} :
      /\ m.elided = 0
      /\ Len(m.ATTRIBUTE_POSITION) = Len(m.ATTRIBUTE_NORMAL)
      /\ Len(m.ATTRIBUTE_POSITION) = Len(m.ATTRIBUTE_UV_0)
      /\ Len(m.indices) % 3 = 0
      /\ \A i \in 1..Len(m.indices) : m.indices[i] < Len(m.ATTRIBUTE_POSITION)
      /\ Len(m.ATTRIBUTE_POSITION) <= U16_RANGE

\* A mesh generated from a chunk that holds a non-AIR block: one quad per voxel.
C6_Witness ==
  /\ call.op = "generate_mesh"
  /\ ~call.panic
  /\ chunks[call.entity].blocks # empty.blocks
  /\ meshes[call.entity].elided = 0
  /\ Len(meshes[call.entity].ATTRIBUTE_POSITION) = 4 * NumBlocks
  /\ Len(meshes[call.entity].indices) = 6 * NumBlocks

\* C7: with n vertices in the buffer, insert_face appends 4 positions, 4
\* normals, 4 uvs and the 6 indices n, n+1, n+2, n+2, n+3, n, and leaves what was
\* stored; a vertex count outside the 16-bit index space is not wrapped.
C7_IndexBase ==
  [][ call'.op = "insert_face" =>
        \E n \in {positions_len(mesh)}, k \in {Len(mesh.indices)} :
          /\ mesh'.elided = mesh.elided
          /\ positions_len(mesh') = n + 4
          /\ normals_len(mesh') = normals_len(mesh) + 4
          /\ uvs_len(mesh') = uvs_len(mesh) + 4
          /\ indices_len(mesh') = indices_len(mesh) + 6
          /\ SubSeq(mesh'.positions, 1, Len(mesh.positions)) = mesh.positions
          /\ SubSeq(mesh'.normals, 1, Len(mesh.normals)) = mesh.normals
          /\ SubSeq(mesh'.uvs, 1, Len(mesh.uvs)) = mesh.uvs
          /\ SubSeq(mesh'.indices, 1, k) = mesh.indices
          /\ SubSeq(mesh'.indices, k + 1, k + 6)
               = <<n, n + 1, n + 2, n + 2, n + 3, n>> ]_vars

\* The corners of the rectangle [y, y + w] x [z, z + h] in the plane x.
Corners(x, y, z, w, h) ==
  { <<x, y, z>>, <<x, y + w, z>>, <<x, y, z + h>>, <<x, y + w, z + h>> }

\* The vertices 4k+1 .. 4k+4 of the spelled-out part of a buffer.
Quad(buffer, k) == { buffer[4 * k + i] : i \in 1..4 }

\* The quad generate_mesh emits for every voxel (x, y, z), the voxels taken in
\* the order of the loops, lies in the plane x + 1, covers the voxel's unit
\* square and has the normal (1, 0, 0).
NaiveFacesAtFarSide(m) ==
  \A p \in InRangeCoords :
    \E k \in {block_index(p[1], p[2], p[3])} :
      /\ Quad(m.ATTRIBUTE_POSITION, k) = Corners(p[1] + 1, p[2], p[3], 1, 1)
      /\ Quad(m.ATTRIBUTE_NORMAL, k) = { <<1, 0, 0>> }

\* C8 as stated: insert_face puts the rectangle [y, y+width] x [z, z+height]
\* in the plane x + 1 of the origin (x, y, z) it is given, with normal (1,0,0),
\* and the naive X+ face of voxel (x, y, z) lies in the plane x + 1.
C8_PlaneBeyondOrigin ==
  [][ /\ call'.op = "insert_face" =>
           \E p \in {call'.pos}, d \in {call'.dims}, n \in {Len(mesh.positions) \div 4} :
             /\ Quad(mesh'.positions, n) = Corners(p[1] + 1, p[2], p[3], d[1], d[2])
             /\ Quad(mesh'.normals, n) = { <<1, 0, 0>> }
      /\ (call'.op = "generate_mesh" /\ ~call'.panic) =>
           NaiveFacesAtFarSide(meshes'[call'.entity]) ]_vars

\* C8 amended: insert_face puts the rectangle [y, y+width] x [z, z+height] in
\* the plane x of the position (x, y, z) it is given, with normal (1,0,0); the
\* naive mesher passes (x + 1, y, z) for voxel (x, y, z), so the X+ face of the
\* voxel lies in the plane x + 1 and covers the voxel's unit square.
C8_PlaneOfPosition ==
  [][ /\ call'.op = "insert_face" =>
           \E p \in {call'.pos}, d \in {call'.dims}, n \in {Len(mesh.positions) \div 4} :
             /\ Quad(mesh'.positions, n) = Corners(p[1], p[2], p[3], d[1], d[2])
             /\ Quad(mesh'.normals, n) = { <<1, 0, 0>> }
      /\ (call'.op = "generate_mesh" /\ ~call'.panic) =>
           NaiveFacesAtFarSide(meshes'[call'.entity]) ]_vars

\* A face of 3 x 2 voxels emitted at (3, 2, 1).
C8_Witness ==
  /\ call.op = "insert_face"
  /\ call.pos = <<3, 2, 1>>
  /\ call.dims = <<3, 2>>
  /\ Quad(mesh.positions, (Len(mesh.positions) \div 4) - 1)
       = { <<3, 2, 1>>, <<3, 5, 1>>, <<3, 2, 3>>, <<3, 5, 3>> }

\* C9: the 4 uvs insert_face emits for a face of size (width, height) are the
\* 4 distinct corners of [0, width] x [0, height], or of [0, 1] x [0, 1]; they
\* are never all the same.
C9_UVCorners ==
  call.op = "insert_face" =>
    \E d \in {call.dims}, n \in {(Len(mesh.uvs) \div 4) - 1} :
      /\ \/ Quad(mesh.uvs, n) = { <<0, 0>>, <<d[1], 0>>, <<0, d[2]>>, <<d[1], d[2]>> }
         \/ Quad(mesh.uvs, n) = { <<0, 0>>, <<1, 0>>, <<0, 1>>, <<1, 1>> }
      /\ Cardinality(Quad(mesh.uvs, n)) = 4

====
